---- MODULE Spec2Model ----
(***************************************************************************)
(* Energy-based onset detection (src/src/bpm.rs) with its statistics       *)
(* helpers (src/src/utils.rs).                                             *)
(*                                                                         *)
(* Every number of the program is an f32.  An f32 is modelled as a pair    *)
(* <<m, e>> standing for m * 2^e, in the IEEE-754 binary32 layout: the     *)
(* significand |m| < 2^24, the exponent e >= -149, and either              *)
(* |m| >= 2^23 (a normal number) or e = -149 (zero or a subnormal).  Each  *)
(* arithmetic operator computes the exact result and rounds it to nearest, *)
(* ties to even, as the hardware does.  A result of magnitude 2^128 or more *)
(* overflows to an infinity, <<+-2^23, 105>>; the difference of two equal   *)
(* infinities and the product of an infinity and zero are NaN, <<0, 106>>.  *)
(* The samples themselves are finite.                                      *)
(***************************************************************************)
EXTENDS Integers, Sequences, FiniteSets, TLC

\* ------------------------------------------------------------------ f32
\* Significand width of an f32, hidden bit included.
P == 24
\* Exponent of the least positive (subnormal) f32, 2^-149.
EMIN == -149

Abs(x) == IF x < 0 THEN -x ELSE x
Max(a, b) == IF a >= b THEN a ELSE b
Min(a, b) == IF a <= b THEN a ELSE b

RECURSIVE BitLen(_)
BitLen(n) == IF n = 0 THEN 0 ELSE 1 + BitLen(n \div 2)

\* Exponent of the greatest finite f32, (2^24 - 1) * 2^104.
EMAX == 104

Zero == <<0, EMIN>>
Infinity == <<2^(P - 1), EMAX + 1>>
NaN == <<0, EMAX + 2>>
IsNaN(x) == x[1] = 0 /\ x[2] > EMAX
IsInf(x) == x[1] # 0 /\ x[2] > EMAX
Neg(x) == <<-x[1], x[2]>>
AbsF32(x) == <<Abs(x[1]), x[2]>>
Signed(negative, r) == IF negative THEN Neg(r) ELSE r
\* The pairs that are values of an f32: NaN, the two infinities, and the
\* finite values up to (2^24 - 1) * 2^104 in magnitude.
IsF32(x) ==
    \/ x = NaN
    \/ <<Abs(x[1]), x[2]>> = Infinity
    \/ /\ Abs(x[1]) < 2^P
       /\ x[2] >= EMIN
       /\ x[2] <= EMAX
       /\ (Abs(x[1]) >= 2^(P - 1) \/ x[2] = EMIN)

\* Rounding to nearest, ties to even, of the exact magnitude
\* (hi * 2^24 + lo) * 2^e, 0 <= lo < 2^24, that has L bits, by dropping its
\* last s bits.
\* The bits kept.
Quotient(hi, lo, s) ==
    IF s <= P THEN hi * 2^(P - s) + lo \div 2^s ELSE hi \div 2^(s - P)
\* The bits dropped against half a unit in the last place kept: -1 below,
\* 0 a tie, 1 above.
Sign3(a, b) == IF a > b THEN 1 ELSE IF a = b THEN 0 ELSE -1
CmpHalf(hi, lo, s) ==
    IF s <= P THEN Sign3(lo % 2^s, 2^(s - 1))
    ELSE IF hi % 2^(s - P) # 2^(s - P - 1)
         THEN Sign3(hi % 2^(s - P), 2^(s - P - 1))
         ELSE IF lo > 0 THEN 1 ELSE 0
\* A significand of up to 2^24 with its exponent, as an f32.
Normal(m, e) ==
    IF m = 0 THEN Zero
    ELSE IF m = 2^P THEN <<2^(P - 1), e + 1>>
    ELSE <<m, e>>
Nearest(q, cmp, e) ==
    Normal(IF cmp = 1 \/ (cmp = 0 /\ q % 2 = 1) THEN q + 1 ELSE q, e)
RoundBits(hi, lo, e, L, s) ==
    IF L = 0 THEN Zero
    ELSE IF s <= 0 THEN <<lo * 2^Min(P - L, e - EMIN), e - Min(P - L, e - EMIN)>>
    ELSE IF s > L + 1 THEN Zero
    ELSE Nearest(Quotient(hi, lo, s), CmpHalf(hi, lo, s), e + s)
\* No f32 has bits below 2^-149: a result that small is subnormal or zero.
\* And none is as great as 2^128: a result that great is an infinity.
Overflow(x) == IF x[2] > EMAX THEN Infinity ELSE x
RoundLen(hi, lo, e, L) ==
    Overflow(RoundBits(hi, lo, e, L, Max(L - P, EMIN - e)))
RoundF32(hi, lo, e) ==
    RoundLen(hi, lo, e, IF hi > 0 THEN P + BitLen(hi) ELSE BitLen(lo))
\* The same of (h * 2^24 + t) * 2^e for -2^24 <= t < 2^25: the carry or
\* the borrow goes to the high limb.
Carry(h, t, e) == RoundF32(h + t \div 2^P, t % 2^P, e)

\* An integer of magnitude below 2^24 as an f32 (exact).
FromInt(n) == Signed(n < 0, RoundF32(0, Abs(n), 0))

\* x < y on f32 (the order partial_cmp gives on non-NaN values).
LessMag(a, b) == a[2] < b[2] \/ (a[2] = b[2] /\ a[1] < b[1])
LessF32(x, y) ==
    IF IsNaN(x) \/ IsNaN(y) THEN FALSE
    ELSE IF x[1] >= 0 /\ y[1] >= 0 THEN LessMag(x, y)
    ELSE IF x[1] < 0 /\ y[1] < 0 THEN LessMag(Neg(y), Neg(x))
    ELSE x[1] < 0

\* x * y: the 48-bit product of the significands, from their 12-bit halves,
\* in two 24-bit limbs, rounded.
MulSum(hh, mid, ll, e) ==
    Carry(hh + mid \div 4096, ll + (mid % 4096) * 4096, e)
MulLimbs(ah, al, bh, bl, e) == MulSum(ah * bh, ah * bl + al * bh, al * bl, e)
MulMag(a, b, e) == MulLimbs(a \div 4096, a % 4096, b \div 4096, b % 4096, e)
MulFinite(x, y) ==
    Signed((x[1] < 0) # (y[1] < 0), MulMag(Abs(x[1]), Abs(y[1]), x[2] + y[2]))
MulF32(x, y) ==
    IF IsNaN(x) \/ IsNaN(y) THEN NaN
    ELSE IF IsInf(x) \/ IsInf(y)
    THEN IF x[1] = 0 \/ y[1] = 0 THEN NaN
         ELSE Signed((x[1] < 0) # (y[1] < 0), Infinity)
    ELSE MulFinite(x, y)

\* The significand m shifted left by d <= 25 bits, in two limbs.
ShiftHi(m, d) == IF d = P + 1 THEN 2 * m ELSE m \div 2^(P - d)
ShiftLo(m, d) == IF d = P + 1 THEN 0 ELSE (m % 2^(P - d)) * 2^d

\* big + small for big, small >= 0, big of the higher exponent.  A term 2^25
\* times smaller than the unit in the last place of the other is rounded off.
AddAligned(big, small, d) ==
    IF d >= P + 1 THEN big
    ELSE Carry(ShiftHi(big[1], d), ShiftLo(big[1], d) + small[1], small[2])
AddMag(x, y) ==
    AddAligned(IF x[2] >= y[2] THEN x ELSE y, IF x[2] >= y[2] THEN y ELSE x,
               Abs(x[2] - y[2]))

\* big - small for big >= small >= 0.
SubAligned(big, small, d) ==
    IF d >= P + 2 THEN big
    ELSE Carry(ShiftHi(big[1], d), ShiftLo(big[1], d) - small[1], small[2])
SubMag(x, y) == SubAligned(x, y, x[2] - y[2])

\* x + y, of opposite signs: the difference of the magnitudes, with the
\* sign of the larger.
DiffF32(x, y) ==
    Signed(IF LessMag(AbsF32(x), AbsF32(y)) THEN y[1] < 0 ELSE x[1] < 0,
           SubMag(IF LessMag(AbsF32(x), AbsF32(y)) THEN AbsF32(y) ELSE AbsF32(x),
                  IF LessMag(AbsF32(x), AbsF32(y)) THEN AbsF32(x) ELSE AbsF32(y)))
AddFinite(x, y) ==
    IF x[1] = 0 THEN y
    ELSE IF y[1] = 0 THEN x
    ELSE IF (x[1] < 0) = (y[1] < 0)
    THEN Signed(x[1] < 0, AddMag(AbsF32(x), AbsF32(y)))
    ELSE DiffF32(x, y)
AddF32(x, y) ==
    IF IsNaN(x) \/ IsNaN(y) THEN NaN
    ELSE IF IsInf(x) THEN (IF IsInf(y) /\ x # y THEN NaN ELSE x)
    ELSE IF IsInf(y) THEN y
    ELSE AddFinite(x, y)
SubF32(x, y) == AddF32(x, Neg(y))

\* x / n for a count n below 2^24 converted to f32 (`set.len() as f32`, an
\* exact conversion).  The long division of the significand by n, a bit at
\* a time until the quotient has 26 bits, and a sticky bit for the
\* remainder, rounded.  0 / 0 is NaN and x / 0 an infinity.
RECURSIVE DivBits(_, _, _, _)
DivBits(q, r, n, e) ==
    IF q >= 2^(P + 1) THEN Carry(0, 2 * q + (IF r = 0 THEN 0 ELSE 1), e - 1)
    ELSE DivBits(2 * q + (IF 2 * r >= n THEN 1 ELSE 0),
                 IF 2 * r >= n THEN 2 * r - n ELSE 2 * r, n, e - 1)
DivMag(m, n, e) == DivBits(m \div n, m % n, n, e)
DivF32(x, n) ==
    IF IsNaN(x) THEN NaN
    ELSE IF n = 0 THEN (IF x[1] = 0 THEN NaN ELSE Signed(x[1] < 0, Infinity))
    ELSE IF x[2] > EMAX \/ x[1] = 0 THEN x
    ELSE Signed(x[1] < 0, DivMag(Abs(x[1]), n, x[2]))

\* ------------------------------------------------------------- utils.rs
RECURSIVE SumF32(_, _, _)
\* set.iter().sum::<f32>(): the left fold of + from 0.
SumF32(acc, set, i) ==
    IF i > Len(set) THEN acc ELSE SumF32(AddF32(acc, set[i]), set, i + 1)

\* mean gone wrong: the sum divided by one more than the count.
MeanOffByOne(set) == DivF32(SumF32(Zero, set, 1), Len(set) + 1)

\* mean of a non-empty slice.
Mean(set) == DivF32(SumF32(Zero, set, 1), Len(set))

\* One element put in its place in an ascending sorted sequence.
RECURSIVE Insert(_, _)
Insert(sorted, v) ==
    IF sorted = <<>> THEN <<v>>
    ELSE IF LessF32(v, Head(sorted)) THEN <<v>> \o sorted
    ELSE <<Head(sorted)>> \o Insert(Tail(sorted), v)

\* copy.sort_by(partial_cmp): the ascending sorted copy.
RECURSIVE SortF32(_)
SortF32(set) ==
    IF set = <<>> THEN <<>> ELSE Insert(SortF32(Tail(set)), Head(set))

\* partial_cmp(b).unwrap() panics on a NaN, and sorting two elements or more
\* compares every one of them; on an empty slice middle_index - 1 is out of
\* range.
MedianPanics(set) ==
    \/ Len(set) = 0
    \/ Len(set) >= 2 /\ \E i \in 1..Len(set) : IsNaN(set[i])

\* median gone wrong: the copy left as cloned, not sorted.
MedianNoSort(set) ==
    IF Len(set) % 2 = 0
    THEN Mean(SubSeq(set, Len(set) \div 2, Len(set) \div 2))
    ELSE set[(Len(set) \div 2) + 1]

\* median of a non-empty slice.  The Rust range middle_index - 1..middle_index
\* (0-based, end excluded) is SubSeq(copy, middle_index, middle_index).
Median(set) ==
    LET copy == SortF32(set)
        middle_index == Len(copy) \div 2
    IN  IF Len(copy) % 2 = 0
        THEN Mean(SubSeq(copy, middle_index, middle_index))
        ELSE copy[middle_index + 1]

\* ------------------------------------------------------- bpm.rs: Frame
\* Samples per chunk.  The program fixes 512; the model keeps the chunk
\* length a parameter and checks with short chunks.  A chunk of 512 equal
\* samples has 2^8 times the energy of a chunk of 2: every history value
\* and threshold is scaled by that power of two, exactly in f32, and every
\* comparison of process comes out the same.
BUFFER_SIZE == 2
BUFFERS_PER_FRAME == 4
FRAME_SIZE == BUFFER_SIZE * BUFFERS_PER_FRAME

FrameSliceNew == [i \in 1..BUFFER_SIZE |-> Zero]

\* Frame::new: the samples vector, BUFFERS_PER_FRAME zero chunks.
FrameNew == [i \in 1..BUFFERS_PER_FRAME |-> FrameSliceNew]

\* Frame::write gone wrong: the chunk pushed and nothing removed.
FrameWritePushOnly(samples, sample) ==
    [samples |-> Append(samples, sample), old_slice |-> Head(samples)]
\* Frame::write gone wrong: pop() in place of remove(0).
FrameWritePop(samples, sample) == [samples |-> samples, old_slice |-> sample]

\* Frame::write on the samples vector: push the chunk, remove(0), return it.
FrameWrite(samples, sample) ==
    LET pushed == Append(samples, sample)
    IN  [samples |-> Tail(pushed), old_slice |-> Head(pushed)]

\* Frame::buffer: a zeroed array of FRAME_SIZE, chunk i copied to its place.
FrameBuffer(samples) ==
    [j \in 1..FRAME_SIZE |->
        LET i == (j - 1) \div BUFFER_SIZE + 1
        IN  IF i <= Len(samples)
            THEN samples[i][((j - 1) % BUFFER_SIZE) + 1]
            ELSE Zero]
\* A vector of more than BUFFERS_PER_FRAME chunks makes the slice
\* buffer[start..start + BUFFER_SIZE] run past the array: Frame::buffer panics.
FrameBufferPanics(samples) == Len(samples) * BUFFER_SIZE > FRAME_SIZE

\* Frame::energy gone wrong: acc + x in place of acc + x * x.
RECURSIVE FoldEnergyNoSquare(_, _, _)
FoldEnergyNoSquare(acc, buffer, i) ==
    IF i > Len(buffer) THEN acc
    ELSE FoldEnergyNoSquare(AddF32(acc, buffer[i]), buffer, i + 1)

RECURSIVE FoldEnergy(_, _, _)
FoldEnergy(acc, buffer, i) ==
    IF i > Len(buffer) THEN acc
    ELSE FoldEnergy(AddF32(acc, MulF32(buffer[i], buffer[i])), buffer, i + 1)

\* Frame::energy: fold(0., |acc, x| acc + x * x) over the buffer.
FrameEnergy(samples) == FoldEnergy(Zero, FrameBuffer(samples), 1)

\* ---------------------------------------------- bpm.rs: FrameProcessor
\* ThresholdParams: lambda = 1.0, alpha = 0.7, m = 10, hp_weight = 0.05,
\* each the f32 nearest to its literal.
M == 10
Lambda == <<8388608, -23>>
Alpha == <<11744051, -24>>
HpWeight == <<13421773, -28>>

\* FrameProcessor::new gone wrong: the other mode.
ProcessorNewSpectral ==
    [mode |-> "SpectralDifference",
     frames |-> <<FrameNew, FrameNew>>,
     history |-> <<>>,
     threshold |-> Zero,
     highest_peak |-> Zero]

\* FrameProcessor::new.  frames[1] is frames.0 ("previous"), frames[2] is
\* frames.1 ("current"); history[1] is the newest entry.
ProcessorNew ==
    [mode |-> "Energy",
     frames |-> <<FrameNew, FrameNew>>,
     history |-> <<>>,
     threshold |-> Zero,
     highest_peak |-> Zero]

\* FrameProcessor::write gone wrong: the new chunk written to both frames.
ProcessorWriteNoCarry(p, buffer) ==
    [p EXCEPT !.frames = <<FrameWrite(p.frames[1], buffer).samples,
                           FrameWrite(p.frames[2], buffer).samples>>]
\* FrameProcessor::write gone wrong: the two frames taken in the other order.
ProcessorWriteSwapped(p, buffer) ==
    [p EXCEPT !.frames =
        <<FrameWrite(p.frames[1], buffer).samples,
          FrameWrite(p.frames[2], FrameWrite(p.frames[1], buffer).old_slice).samples>>]

\* FrameProcessor::write.
ProcessorWrite(p, buffer) ==
    LET cur == FrameWrite(p.frames[2], buffer)
        carry_over == cur.old_slice
        prv == FrameWrite(p.frames[1], carry_over)
    IN  [p EXCEPT !.frames = <<prv.samples, cur.samples>>]

\* update_history gone wrong: history.push(value).
UpdateHistoryPush(p, value) == [p EXCEPT !.history = Append(p.history, value)]

\* FrameProcessor::update_history: history.insert(0, value).
UpdateHistory(p, value) == [p EXCEPT !.history = <<value>> \o p.history]

\* calculate_threshold gone wrong: the slice taken over m + 3 entries.
CalculateThresholdLookback(p) ==
    IF Len(p.history) < M + 3 \/ MedianPanics(SubSeq(p.history, 1, M))
    THEN [fault |-> TRUE, p |-> p]
    ELSE [fault |-> FALSE,
          p |-> [p EXCEPT !.threshold =
                   AddF32(AddF32(MulF32(Lambda, Median(SubSeq(p.history, 1, M))),
                                 MulF32(Alpha, Mean(SubSeq(p.history, 1, M)))),
                          MulF32(p.highest_peak, HpWeight))]]

\* FrameProcessor::calculate_threshold.  &self.history[0..m] panics on a
\* history shorter than m, and median on a NaN among those m, before
\* anything is assigned.
CalculateThreshold(p) ==
    IF Len(p.history) < M THEN [fault |-> TRUE, p |-> p]
    ELSE IF MedianPanics(SubSeq(p.history, 1, M)) THEN [fault |-> TRUE, p |-> p]
    ELSE LET weighted_highest_peak == MulF32(p.highest_peak, HpWeight)
             prev_values == SubSeq(p.history, 1, M)
             t == AddF32(AddF32(MulF32(Lambda, Median(prev_values)),
                                MulF32(Alpha, Mean(prev_values))),
                         weighted_highest_peak)
         IN  [fault |-> FALSE, p |-> [p EXCEPT !.threshold = t]]

\* Variants of the peak pick: >= for > (strict = FALSE), highest_peak
\* overwritten (keep_max = FALSE).
PeakPick(p, curr, prev, prev_prev, strict, keep_max) ==
    IF /\ (LessF32(curr, prev) \/ (~strict /\ curr = prev))
       /\ (LessF32(prev_prev, prev) \/ (~strict /\ prev_prev = prev))
       /\ (LessF32(p.threshold, prev) \/ (~strict /\ p.threshold = prev))
    THEN [ret |-> "true",
          p |-> [p EXCEPT !.highest_peak =
                   IF keep_max /\ ~LessF32(p.highest_peak, prev)
                   THEN p.highest_peak ELSE prev]]
    ELSE [ret |-> "false", p |-> p]
\* check_for_previous_onset gone wrong: >= in place of >.
CheckForPreviousOnsetNonStrict(p) ==
    IF Len(p.history) < 3 THEN [ret |-> "fault", p |-> p]
    ELSE PeakPick(p, p.history[1], p.history[2], p.history[3], FALSE, TRUE)
\* check_for_previous_onset gone wrong: the newest value taken for the peak.
CheckForPreviousOnsetNoLatency(p) ==
    IF Len(p.history) < 3 THEN [ret |-> "fault", p |-> p]
    ELSE PeakPick(p, p.history[2], p.history[1], p.history[3], TRUE, TRUE)
\* check_for_previous_onset gone wrong: highest_peak = prev on every onset.
CheckForPreviousOnsetOverwrite(p) ==
    IF Len(p.history) < 3 THEN [ret |-> "fault", p |-> p]
    ELSE PeakPick(p, p.history[1], p.history[2], p.history[3], TRUE, FALSE)

\* check_for_previous_onset gone wrong: no test for a local maximum.
CheckForPreviousOnsetNoLocalMax(p) ==
    IF Len(p.history) < 3 THEN [ret |-> "fault", p |-> p]
    ELSE IF LessF32(p.threshold, p.history[2])
    THEN [ret |-> "true",
          p |-> [p EXCEPT !.highest_peak =
                   IF LessF32(p.highest_peak, p.history[2])
                   THEN p.history[2] ELSE p.highest_peak]]
    ELSE [ret |-> "false", p |-> p]

\* FrameProcessor::check_for_previous_onset.  self.history[0..3] panics on a
\* history shorter than 3.
CheckForPreviousOnset(p) ==
    IF Len(p.history) < 3 THEN [ret |-> "fault", p |-> p]
    ELSE LET curr == p.history[1]
             prev == p.history[2]
             prev_prev == p.history[3]
         IN  IF /\ LessF32(curr, prev)
                /\ LessF32(prev_prev, prev)
                /\ LessF32(p.threshold, prev)
             THEN [ret |-> "true",
                   p |-> [p EXCEPT !.highest_peak =
                            IF LessF32(p.highest_peak, prev)
                            THEN prev ELSE p.highest_peak]]
             ELSE [ret |-> "false", p |-> p]

\* The onset detection function gone wrong: the difference without abs().
OdfNoAbs(p) == SubF32(FrameEnergy(p.frames[2]), FrameEnergy(p.frames[1]))

\* The onset detection function of process: |energy(current) - energy(previous)|.
Odf(p) == AbsF32(SubF32(FrameEnergy(p.frames[2]), FrameEnergy(p.frames[1])))

\* The steps of process after the write: the onset detection function into
\* the history, then the threshold and the peak pick.
ProcessOdf(p) == UpdateHistory(p, Odf(p))
ProcessPick(t) ==
    IF t.fault THEN [ret |-> "fault", p |-> t.p] ELSE CheckForPreviousOnset(t.p)
\* process gone wrong: the onset detection function taken before the write.
ProcessCallOdfFirst(p, buffer) ==
    ProcessPick(CalculateThreshold(ProcessorWrite(ProcessOdf(p), buffer)))
\* process gone wrong: the peak pick made before the threshold is recomputed.
PickThenThreshold(c) ==
    IF c.ret = "fault" \/ CalculateThreshold(c.p).fault
    THEN [ret |-> "fault", p |-> CalculateThreshold(c.p).p]
    ELSE [ret |-> c.ret, p |-> CalculateThreshold(c.p).p]
ProcessCallPickFirst(p, buffer) ==
    PickThenThreshold(CheckForPreviousOnset(ProcessOdf(ProcessorWrite(p, buffer))))

\* FrameProcessor::process: the processor after the call and what the call
\* returned, "true", "false" or "fault" (a panic; the fields assigned before
\* it keep their new values).  In the order of the code: write, the onset
\* detection function into the history, the threshold, the peak pick.
ProcessCall(p, buffer) ==
    ProcessPick(CalculateThreshold(ProcessOdf(ProcessorWrite(p, buffer))))

\* ---------------------------------------------------------------- state
VARIABLES
    mode,           \* FrameProcessor.mode
    frames,         \* FrameProcessor.frames: <<frames.0, frames.1>>
    history,        \* FrameProcessor.history, newest first
    threshold,      \* FrameProcessor.threshold
    highest_peak,   \* FrameProcessor.highest_peak
    written,        \* the chunks given to the processor so far, in order
    results,        \* what each process call returned, in order
    frame,          \* a Frame on its own (tests::test_frame_write): its samples
    fwritten,       \* the chunks written to that Frame, in order
    freturned,      \* what each of those writes returned, in order
    set,            \* the slice given to mean and median
    mean_ret,       \* <<what mean(set) returned>>, <<>> before the call
    median_ret      \* <<what median(set) returned>>, <<>> before the call

procvars == <<mode, frames, history, threshold, highest_peak, written, results>>
framevars == <<frame, fwritten, freturned>>
statvars == <<set, mean_ret, median_ret>>
vars == <<procvars, framevars, statvars>>

\* The processor as one value, and its assignment back to the fields.
Proc ==
    [mode |-> mode, frames |-> frames, history |-> history,
     threshold |-> threshold, highest_peak |-> highest_peak]
SetProc(p) ==
    /\ mode' = p.mode
    /\ frames' = p.frames
    /\ history' = p.history
    /\ threshold' = p.threshold
    /\ highest_peak' = p.highest_peak

\* ------------------------------------------------------- bounds, inputs
\* Process calls explored from a fresh processor.
MaxCalls == 12
\* Direct FrameProcessor::write calls explored (tests::test_frame_processor_write).
MaxWrites == 10
\* Writes to the Frame on its own.
MaxFrameWrites == 5
\* Silence, then a sustained level: the longest runs of each.
MaxZeros == 20
MaxFives == 10

ConstChunk(v) == [i \in 1..BUFFER_SIZE |-> v]
\* A chunk whose first sample alone is v.
ImpulseChunk(v) == [i \in 1..BUFFER_SIZE |-> IF i = 1 THEN v ELSE Zero]

Silence == ConstChunk(Zero)
Fives == ConstChunk(FromInt(5))
\* 2^-75, the greatest sample whose square (2^-150, half the least subnormal)
\* rounds to zero, and the next f32 above it, whose square rounds to 2^-149.
Tiny == <<2^(P - 1), -98>>
AboveTiny == <<2^(P - 1) + 1, -98>>

\* The chunks fed to process.
Chunks == {Silence, Fives}
\* A chunk of samples 2^64: finite, and the square of each, 2^128, is more
\* than the greatest f32.
Loud == ConstChunk(<<2^(P - 1), 41>>)
LoudChunks == {Silence, Fives, Loud}
\* The chunks FrameProcessor::write is given as its n-th chunk, n from 0:
\* [n as f32; BUFFER_SIZE] as in the test, or an impulse.
WriteChunks(n) == {ConstChunk(FromInt(n)), ImpulseChunk(FromInt(-3))}
\* The chunks written to the Frame on its own.
FrameChunks ==
    {Silence, ConstChunk(FromInt(1)), ImpulseChunk(FromInt(-3)), Fives,
     ConstChunk(Tiny), ImpulseChunk(AboveTiny)}

\* Calls of silence before the first loud chunk.
QuietCalls == 6
\* Calls of write and process mixed, from a fresh processor.
MaxOps == 6
\* The longest slice given to mean and median.
MaxLen == 4
\* The elements of those slices: 1., 2., 3., 4. of the tests, a negative
\* value, and 2^24, the least f32 whose successor is 2 away.
StatValues ==
    {FromInt(1), FromInt(2), FromInt(3), FromInt(4), FromInt(-3), <<2^(P - 1), 1>>}
StatInputs == UNION {[1..n -> StatValues] : n \in 1..MaxLen}

\* -------------------------------------------------------------- actions
\* The processor and the Frame as constructed, nothing yet called.
InitProcessor ==
    /\ mode = ProcessorNew.mode
    /\ frames = ProcessorNew.frames
    /\ history = ProcessorNew.history
    /\ threshold = ProcessorNew.threshold
    /\ highest_peak = ProcessorNew.highest_peak
    /\ written = <<>>
    /\ results = <<>>
    /\ frame = FrameNew
    /\ fwritten = <<>>
    /\ freturned = <<>>
Init ==
    /\ InitProcessor
    /\ set = <<>>
    /\ mean_ret = <<>>
    /\ median_ret = <<>>
\* A slice to call mean and median on.
InitStats ==
    /\ InitProcessor
    /\ set \in StatInputs
    /\ mean_ret = <<>>
    /\ median_ret = <<>>

\* process(buffer) on the processor.
Returned(r, buffer) ==
    /\ SetProc(r.p)
    /\ written' = Append(written, buffer)
    /\ results' = Append(results, r.ret)
    /\ UNCHANGED <<framevars, statvars>>
DoProcess(buffer) == Returned(ProcessCall(Proc, buffer), buffer)

Process(buffer) ==
    /\ Len(results) < MaxCalls
    /\ DoProcess(buffer)

\* write(buffer) on the processor, called directly.
Write(buffer) ==
    /\ Len(written) < MaxWrites
    /\ SetProc(ProcessorWrite(Proc, buffer))
    /\ written' = Append(written, buffer)
    /\ UNCHANGED <<results, framevars, statvars>>

\* write(sample) on the Frame on its own.
WriteFrame(sample) ==
    /\ Len(fwritten) < MaxFrameWrites
    /\ LET w == FrameWrite(frame, sample)
       IN  /\ frame' = w.samples
           /\ freturned' = Append(freturned, w.old_slice)
    /\ fwritten' = Append(fwritten, sample)
    /\ UNCHANGED <<procvars, statvars>>

\* process of a chunk that may be loud, after QuietCalls calls of silence.
ProcessAfterQuiet(buffer) ==
    /\ Len(results) < MaxCalls
    /\ Len(written) < QuietCalls => buffer = Silence
    /\ DoProcess(buffer)

\* process of one more chunk of silence, before any other chunk.
ProcessSilence ==
    /\ Len(written) < MaxZeros
    /\ \A i \in 1..Len(written) : written[i] = Silence
    /\ DoProcess(Silence)

\* process of one more chunk of the sustained level 5.
ProcessFives ==
    /\ Cardinality({i \in 1..Len(written) : written[i] = Fives}) < MaxFives
    /\ DoProcess(Fives)

\* write and process called in any order on one processor.
OpWrite(buffer) ==
    /\ Len(written) < MaxOps
    /\ SetProc(ProcessorWrite(Proc, buffer))
    /\ written' = Append(written, buffer)
    /\ UNCHANGED <<results, framevars, statvars>>
OpProcess(buffer) ==
    /\ Len(written) < MaxOps
    /\ DoProcess(buffer)

\* mean(set) and median(set); the slice is borrowed, never written.
CallMean ==
    /\ mean_ret = <<>>
    /\ mean_ret' = <<Mean(set)>>
    /\ UNCHANGED <<procvars, framevars, set, median_ret>>
CallMedian ==
    /\ median_ret = <<>>
    /\ median_ret' = <<Median(set)>>
    /\ UNCHANGED <<procvars, framevars, set, mean_ret>>

\* Any chunk sequence through process.
Next == \E buffer \in Chunks : Process(buffer)
Spec == Init /\ [][Next]_vars

\* Chunks written to the processor directly.
NextWrite == \E buffer \in WriteChunks(Len(written)) : Write(buffer)
SpecWrite == Init /\ [][NextWrite]_vars

\* A Frame on its own.
NextFrame == \E sample \in FrameChunks : WriteFrame(sample)
SpecFrame == Init /\ [][NextFrame]_vars

\* Silence followed by a sustained level.
NextStep == ProcessSilence \/ ProcessFives
SpecStep == Init /\ [][NextStep]_vars

\* Silence, then any chunks, loud ones among them.
NextLoud == \E buffer \in LoudChunks : ProcessAfterQuiet(buffer)
SpecLoud == Init /\ [][NextLoud]_vars

\* Every operation of the processor, in any order.
NextOps == \E buffer \in Chunks : OpWrite(buffer) \/ OpProcess(buffer)
SpecOps == Init /\ [][NextOps]_vars

\* mean and median on a slice.
NextStats == CallMean \/ CallMedian
SpecStats == InitStats /\ [][NextStats]_vars

\* ================================================================ claims
W == BUFFERS_PER_FRAME
\* The content of a Frame after the first n chunks of log were written to it,
\* oldest first: the last W of them, zero chunks before the first.
Window(log, n) ==
    [i \in 1..W |-> IF n - W + i >= 1 THEN log[n - W + i] ELSE FrameSliceNew]
\* The concatenation of the chunks of a window.
Concat(window) ==
    [j \in 1..FRAME_SIZE |->
        window[((j - 1) \div BUFFER_SIZE) + 1][((j - 1) % BUFFER_SIZE) + 1]]
NCalls == Len(results)
Trues == {j \in 1..NCalls : results[j] = "true"}
\* The history value produced by process call j (defined when only process
\* has written to the history).
OdfOfCall(j) == history[Len(history) - j + 1]

\* C1: whatever was written to a Frame made by Frame::new, nothing included,
\* the Frame holds exactly BUFFERS_PER_FRAME chunks of BUFFER_SIZE samples,
\* its buffer is materialized without a panic and has FRAME_SIZE samples,
\* and every write returned a chunk.
C1_WindowLength ==
    /\ Len(frame) = BUFFERS_PER_FRAME
    /\ \A i \in 1..Len(frame) : Len(frame[i]) = BUFFER_SIZE
    /\ ~FrameBufferPanics(frame)
    /\ Len(FrameBuffer(frame)) = BUFFER_SIZE * BUFFERS_PER_FRAME
    /\ Len(freturned) = Len(fwritten)
    /\ \A j \in 1..Len(freturned) : Len(freturned[j]) = BUFFER_SIZE
C1_Witness ==
    /\ Len(fwritten) > BUFFERS_PER_FRAME
    /\ Len(frame) = BUFFERS_PER_FRAME
    /\ fwritten[1] # Silence

\* C2: the Frame is a FIFO of depth W: the j-th write returns the chunk of
\* write j - W unchanged (the zero chunk while j <= W), and the buffer is the
\* concatenation of the last W chunks written, oldest first.
C2_Fifo ==
    /\ frame = Window(fwritten, Len(fwritten))
    /\ FrameBuffer(frame) = Concat(Window(fwritten, Len(fwritten)))
    /\ \A j \in 1..Len(freturned) :
          freturned[j] = IF j <= W THEN FrameSliceNew ELSE fwritten[j - W]
C2_Witness ==
    /\ Len(fwritten) = W + 1
    /\ \A i \in 1..Len(fwritten) : \A j \in 1..Len(fwritten) :
          i # j => fwritten[i] # fwritten[j]
    /\ freturned[W + 1] = fwritten[1]
    /\ frame = SubSeq(fwritten, 2, W + 1)

\* C3 as the specification has it: after a write, the previous Frame holds
\* what the current Frame held just before that write.
C3_LagsByOne ==
    Len(written) >= 1 => frames[1] = Window(written, Len(written) - 1)
\* C3, amended: the previous Frame lags the current Frame by W chunk-writes.
\* It holds what the current Frame held W writes earlier (the content of
\* Frame::new before W writes were made), so the two windows are adjacent
\* and share no chunk-write.
C3_LagsByWindow ==
    /\ frames[2] = Window(written, Len(written))
    /\ frames[1] = Window(written, Len(written) - W)
C3_Witness ==
    /\ Len(written) >= W + 2
    /\ frames[1] = Window(written, Len(written) - W)
    /\ frames[1] # Window(written, Len(written) - 1)
    /\ \A i \in 1..W : \A j \in 1..W : frames[1][i] # frames[2][j]

\* C4: after n >= 2W chunks b1..bn written to a fresh processor, frames.1
\* holds b(n-W+1)..bn, bn newest, and frames.0 holds b(n-2W+1)..b(n-W),
\* oldest first; what frames.0 evicts is in neither.  With the chunks
\* [0.; B], [1.; B], .. [9.; B] of the test, the buffer of frames.0 starts
\* with 2 and the buffer of frames.1 ends with 9.
C4_TwoWindows ==
    LET n == Len(written)
    IN  /\ n >= 2 * W =>
            /\ frames[2] = SubSeq(written, n - W + 1, n)
            /\ frames[1] = SubSeq(written, n - 2 * W + 1, n - W)
            /\ Len(frames[1]) + Len(frames[2]) = 2 * W
        /\ ( /\ n = 10
             /\ \A i \in 1..n : written[i] = ConstChunk(FromInt(i - 1)) ) =>
            /\ FrameBuffer(frames[1])[1] = FromInt(2)
            /\ FrameBuffer(frames[2])[FRAME_SIZE] = FromInt(9)
C4_Witness ==
    /\ Len(written) = 10
    /\ \A i \in 1..Len(written) : written[i] = ConstChunk(FromInt(i - 1))
    /\ FrameBuffer(frames[1])[1] = FromInt(2)
    /\ FrameBuffer(frames[2])[FRAME_SIZE] = FromInt(9)

\* C5: a process call that returns (call N >= M) returns true exactly when
\* the history value of call N-1 is greater than the value of call N,
\* greater than the value of call N-2 and greater than the threshold as
\* call N recomputed it; the value of call N itself is not the onset.
C5_OnsetLatency ==
    (NCalls >= 1 /\ results[NCalls] # "fault") =>
        /\ NCalls >= 3
        /\ Len(history) = NCalls
        /\ results[NCalls] = "true" <=>
              /\ LessF32(OdfOfCall(NCalls), OdfOfCall(NCalls - 1))
              /\ LessF32(OdfOfCall(NCalls - 2), OdfOfCall(NCalls - 1))
              /\ LessF32(threshold, OdfOfCall(NCalls - 1))
C5_Witness ==
    /\ NCalls >= 1
    /\ results[NCalls] = "true"
    /\ LessF32(OdfOfCall(NCalls), OdfOfCall(NCalls - 1))
    /\ LessF32(threshold, OdfOfCall(NCalls))

\* C6: every process call made while the history is shorter than M entries
\* returns false and does not fault.
C6_WarmUpReturnsFalse ==
    \A j \in 1..NCalls : j < M => results[j] = "false"

\* C7: while only silence has been fed, every history value is 0, the
\* threshold is 0 and no process call has returned true.
C7_Silence ==
    (\A i \in 1..Len(written) : written[i] = Silence) =>
        /\ \A i \in 1..Len(history) : history[i] = Zero
        /\ threshold = Zero
        /\ Trues = {}
C7_Witness ==
    /\ Len(written) = 20
    /\ \A i \in 1..Len(written) : written[i] = Silence
    /\ Len(history) = 20
    /\ results[20] = "false"

\* The calls of silence before the first other chunk, and the calls of the
\* level 5.
LeadingSilence ==
    Cardinality({i \in 1..Len(written) :
                    \A k \in 1..i : written[k] = Silence})
FivesFed == Cardinality({i \in 1..Len(written) : written[i] = Fives})
\* C8: after at least M calls of silence and then at least 2W + 1 calls of
\* the level 5, exactly one call has returned true: the call after the one
\* that produced the greatest history value, which is the W-th call of the
\* level; and highest_peak is that value, the energy of a window full of 5s.
C8_StepResponse ==
    (LeadingSilence >= M /\ FivesFed >= 2 * W + 1) =>
        /\ Trues = {LeadingSilence + W + 1}
        /\ \A j \in 1..NCalls :
              j # LeadingSilence + W =>
                  LessF32(OdfOfCall(j), OdfOfCall(LeadingSilence + W))
        /\ highest_peak = OdfOfCall(LeadingSilence + W)
        /\ highest_peak = FrameEnergy([i \in 1..W |-> Fives])
        /\ highest_peak = FromInt(25 * FRAME_SIZE)
C8_Witness ==
    /\ LeadingSilence >= M
    /\ FivesFed >= 2 * W + 1
    /\ Trues = {LeadingSilence + W + 1}
    /\ highest_peak = FromInt(25 * FRAME_SIZE)

\* The magnitudes of the onsets confirmed so far, and 0.
Magnitudes == {OdfOfCall(j - 1) : j \in Trues} \cup {Zero}
\* C9: highest_peak is always the greatest magnitude among the calls that
\* returned true, 0 if none did; no call lowers it, and a call that does
\* not return true leaves it as it was.
C9_HighestPeak ==
    /\ [](/\ highest_peak \in Magnitudes
          /\ \A v \in Magnitudes : ~LessF32(highest_peak, v))
    /\ [][/\ ~LessF32(highest_peak', highest_peak)
          /\ results'[Len(results')] # "true" => highest_peak' = highest_peak]_vars
C9_Witness ==
    \E i \in Trues : \E j \in Trues :
        /\ i < j
        /\ LessF32(OdfOfCall(j - 1), OdfOfCall(i - 1))
        /\ highest_peak = OdfOfCall(i - 1)

\* The integer a sample stands for, 0 for a sample below 2^-30.
IntOf(x) ==
    IF x[2] >= 0 THEN x[1] * 2^x[2]
    ELSE IF -x[2] > 30 THEN 0
    ELSE x[1] \div 2^(-x[2])
RECURSIVE SumSq(_, _)
SumSq(buffer, i) ==
    IF i > Len(buffer) THEN 0 ELSE IntOf(buffer[i]) * IntOf(buffer[i]) + SumSq(buffer, i + 1)
\* The square of a sample rounds to zero exactly when the sample is no
\* greater than 2^-75 in magnitude.
SquareUnderflows(x) == ~LessMag(Tiny, AbsF32(x))
IsInteger(x) == x = FromInt(IntOf(x))
\* C10 as the specification has it: the energy is zero exactly when every
\* sample is zero.
C10_ZeroIffAllZero ==
    (FrameEnergy(frame) = Zero) <=>
        (\A j \in 1..FRAME_SIZE : FrameBuffer(frame)[j] = Zero)
\* C10, amended: the energy is the f32 sum of the f32 squares of the
\* samples.  It is never negative, it is the exact sum of squares for
\* integer samples (samples whose square underflows beside them count for
\* nothing), it is zero when every sample is zero, and it is zero exactly
\* when the square of every sample underflows to zero, that is when no
\* sample exceeds 2^-75 in magnitude.
C10_Energy ==
    LET buffer == FrameBuffer(frame)
    IN  /\ ~LessF32(FrameEnergy(frame), Zero)
        /\ (\A j \in 1..FRAME_SIZE :
                IsInteger(buffer[j]) \/ SquareUnderflows(buffer[j])) =>
              FrameEnergy(frame) = FromInt(SumSq(buffer, 1))
        /\ (\A j \in 1..FRAME_SIZE : buffer[j] = Zero) => FrameEnergy(frame) = Zero
        /\ (FrameEnergy(frame) = Zero) <=>
              (\A j \in 1..FRAME_SIZE : SquareUnderflows(buffer[j]))
C10_Witness ==
    /\ \E j \in 1..FRAME_SIZE : FrameBuffer(frame)[j] = FromInt(-3)
    /\ \E j \in 1..FRAME_SIZE : FrameBuffer(frame)[j] = Tiny
    /\ \E j \in 1..FRAME_SIZE : FrameBuffer(frame)[j] = FromInt(1)
    /\ FrameEnergy(frame) = FromInt(9 + BUFFER_SIZE)
\* The boundary of the underflow: a window whose only non-zero samples are
\* 2^-75 and its successor has the energy of the successor alone, 2^-149.
C10_WitnessBoundary ==
    /\ \E j \in 1..FRAME_SIZE : FrameBuffer(frame)[j] = AboveTiny
    /\ \E j \in 1..FRAME_SIZE : FrameBuffer(frame)[j] = Tiny
    /\ FrameEnergy(frame) = <<1, EMIN>>

\* ------------------------------------------------- claims: utils.rs
\* n / 2 as an f32.
Half(n) == DivF32(FromInt(n), 2)
\* The elements of the slice below r and above r.
Below(r) == {i \in 1..Len(set) : LessF32(set[i], r)}
Above(r) == {i \in 1..Len(set) : LessF32(r, set[i])}

\* C11: median of a slice of even length n returns the mean of the two
\* middle elements of the sorted copy, (sorted[n/2-1] + sorted[n/2]) / 2
\* counted from 0; median of [1, 2, 3, 4] is 2.5.
C11_MedianEven ==
    (median_ret # <<>> /\ Len(set) % 2 = 0) =>
        /\ median_ret[1] =
              Mean(<<SortF32(set)[Len(set) \div 2],
                     SortF32(set)[(Len(set) \div 2) + 1]>>)
        /\ set = <<FromInt(1), FromInt(2), FromInt(3), FromInt(4)>> =>
              median_ret[1] = Half(5)

\* C12: median of a slice of odd length n returns the middle element
\* (index n/2 from 0) of the ascending sorted copy: an element of the slice
\* with at most n/2 elements below it and at most n/2 above it.  The slice
\* itself is never changed.  median of [1, 2, 3] is 2, median of [1] is 1.
C12_MedianOdd ==
    /\ []((median_ret # <<>> /\ Len(set) % 2 = 1) =>
            /\ median_ret[1] = SortF32(set)[(Len(set) \div 2) + 1]
            /\ \E i \in 1..Len(set) : set[i] = median_ret[1]
            /\ Cardinality(Below(median_ret[1])) <= Len(set) \div 2
            /\ Cardinality(Above(median_ret[1])) <= Len(set) \div 2
            /\ set = <<FromInt(1), FromInt(2), FromInt(3)>> =>
                  median_ret[1] = FromInt(2)
            /\ set = <<FromInt(1)>> => median_ret[1] = FromInt(1))
    /\ [][set' = set]_vars
C12_Witness ==
    /\ set = <<FromInt(3), FromInt(-3), FromInt(2)>>
    /\ median_ret = <<FromInt(2)>>

\* The permutations of 1..n, and the slice taken in the order f.
Perms(n) == {f \in [1..n -> 1..n] : \A i \in 1..n : \E j \in 1..n : f[j] = i}
Reordered(f) == [i \in 1..Len(set) |-> set[f[i]]]
\* The exact sum of a slice of integers, and the sum of their magnitudes.
RECURSIVE SumInt(_, _)
SumInt(s, i) == IF i > Len(s) THEN 0 ELSE IntOf(s[i]) + SumInt(s, i + 1)
RECURSIVE SumAbs(_, _)
SumAbs(s, i) == IF i > Len(s) THEN 0 ELSE Abs(IntOf(s[i])) + SumAbs(s, i + 1)
\* 4 * x as an integer, for x a multiple of 1/4 of magnitude below 2^24.
IsQuarters(x) == x[1] = 0 \/ x[2] >= -2 \/ (x[2] >= -26 /\ x[1] % 2^(-x[2] - 2) = 0)
Quarters(x) ==
    IF x[1] = 0 THEN 0
    ELSE IF x[2] >= -2 THEN x[1] * 2^(x[2] + 2)
    ELSE x[1] \div 2^(-x[2] - 2)

\* C13 as the specification has it: mean does not depend on the order of
\* the elements; mean of [1, 2, 3, 4] is 2.5, of [1, 2, 3] is 2, of [1] is 1.
C13_OrderIndependent ==
    mean_ret # <<>> =>
        /\ \A f \in Perms(Len(set)) : Mean(Reordered(f)) = mean_ret[1]
        /\ set = <<FromInt(1), FromInt(2), FromInt(3), FromInt(4)>> =>
              mean_ret[1] = Half(5)
        /\ set = <<FromInt(1), FromInt(2), FromInt(3)>> => mean_ret[1] = FromInt(2)
        /\ set = <<FromInt(1)>> => mean_ret[1] = FromInt(1)
\* C13, amended: for integer elements whose magnitudes sum to less than
\* 2^24, every partial sum of the fold is exact, and mean is the exact sum
\* S of the elements divided by the count n and rounded once: exactly S / n
\* when that is a multiple of 1/4.  It depends on S and n alone, so not on
\* the order.  mean of [1, 2, 3, 4] is 2.5, of [1, 2, 3] is 2, of [1] is 1.
C13_Mean ==
    (mean_ret # <<>> /\ SumAbs(set, 1) < 2^P) =>
        /\ mean_ret[1] = DivF32(FromInt(SumInt(set, 1)), Len(set))
        /\ (4 * SumInt(set, 1)) % Len(set) = 0 =>
              /\ IsQuarters(mean_ret[1])
              /\ Quarters(mean_ret[1]) * Len(set) = 4 * SumInt(set, 1)
        /\ set = <<FromInt(1), FromInt(2), FromInt(3), FromInt(4)>> =>
              mean_ret[1] = Half(5)
        /\ set = <<FromInt(1), FromInt(2), FromInt(3)>> => mean_ret[1] = FromInt(2)
        /\ set = <<FromInt(1)>> => mean_ret[1] = FromInt(1)
C13_Witness ==
    /\ set = <<FromInt(4), FromInt(-3), FromInt(1), FromInt(4)>>
    /\ mean_ret = <<Half(3)>>

\* ------------------------------------------- claims: FrameProcessor
\* C15: the processor as constructed has both Frames full of zero samples,
\* an empty history, threshold 0 and highest_peak 0, and its mode is Energy
\* then and after any calls of write and process.
C15_FreshAndMode ==
    /\ mode = "Energy"
    /\ written = <<>> =>
          /\ \A k \in 1..2 :
                /\ Len(frames[k]) = BUFFERS_PER_FRAME
                /\ \A j \in 1..FRAME_SIZE : FrameBuffer(frames[k])[j] = Zero
          /\ Len(frames) = 2
          /\ history = <<>>
          /\ threshold = Zero
          /\ highest_peak = Zero
C15_Witness ==
    /\ Len(results) >= 1
    /\ Len(written) > Len(results)
    /\ frames[1] # FrameNew
    /\ mode = "Energy"

\* The greatest of a non-empty set of f32.
MaxF32(S) == CHOOSE v \in S : \A u \in S : ~LessF32(v, u)
\* highest_peak as the latest call found it: the greatest magnitude among
\* the onsets confirmed by the calls before it, 0 if there is none.
PeakBefore == MaxF32({OdfOfCall(j - 1) : j \in Trues \ {NCalls}} \cup {Zero})
\* The history values of the latest M calls, newest first.
NewestM == [i \in 1..M |-> OdfOfCall(NCalls - i + 1)]
\* C16: after a process call that completes, threshold is
\* lambda * median(v) + alpha * mean(v) + highest_peak * 0.05, in f32 and in
\* this order, for v the history values of the latest M calls, this call
\* included, median and mean as utils.rs computes them, and highest_peak as
\* it was before the peak pick of this call.
C16_Threshold ==
    (NCalls >= 1 /\ results[NCalls] # "fault") =>
        /\ NCalls >= M
        /\ threshold =
              AddF32(AddF32(MulF32(Lambda, Median(NewestM)),
                            MulF32(Alpha, Mean(NewestM))),
                     MulF32(PeakBefore, HpWeight))
C16_Witness ==
    /\ NCalls >= 1
    /\ results[NCalls] = "true"
    /\ LessF32(PeakBefore, highest_peak)
    /\ LessF32(Zero, PeakBefore)

\* The chunks of the level 5 among the W chunks written up to call n.
FivesIn(n) == Cardinality({i \in 1..W : Window(written, n)[i] = Fives})
\* C17: after n process calls were started, the history has n entries,
\* newest first.  The entry of call j is |energy(current) - energy(previous)|
\* of the two Frames as call j shifted them: current the W chunks up to
\* chunk j, previous the W chunks before those.  For chunks of the levels 0
\* and 5 that is 25 * BUFFER_SIZE for each chunk of 5s one window holds more
\* than the other.  A call puts one entry in front and leaves the others as
\* they were, whether it returns or faults.
C17_History ==
    /\ [](/\ Len(history) = NCalls
          /\ NCalls >= 1 =>
                history[1] =
                    AbsF32(SubF32(FrameEnergy(Window(written, NCalls)),
                                  FrameEnergy(Window(written, NCalls - W))))
          /\ \A j \in 1..NCalls :
                OdfOfCall(j) =
                    FromInt(25 * BUFFER_SIZE * Abs(FivesIn(j) - FivesIn(j - W))))
    /\ [][/\ Len(history') = Len(history) + 1
          /\ \A i \in 1..Len(history) : history'[i + 1] = history[i]]_vars
C17_Witness ==
    /\ NCalls >= M
    /\ Len(history) = NCalls
    /\ results[1] = "fault"
    /\ results[NCalls] # "fault"
    /\ history[2] # Zero
    /\ history[1] # history[2]
    /\ history[1] # Zero

\* The energy of the window of the W chunks up to call n overflows: one of
\* them is loud.
Overflowing(n) == \E i \in 1..W : Window(written, n)[i] = Loud
\* C18 as the specification has it: a call that faults is one of the first
\* M calls on the fresh processor, and every call after the first M
\* returns true or false.
C18_FaultsOnlyInWarmUp ==
    \A j \in 1..NCalls :
        /\ results[j] = "fault" => j <= M
        /\ j > M => results[j] \in {"true", "false"}
\* C18, amended: a call faults exactly when the history is shorter than M
\* (the slice history[0..M] is out of bounds) or one of its M newest values
\* is NaN (median panics comparing it).  The value of a call is NaN exactly
\* when the energies of both windows overflow to infinity.  While no window
\* energy overflows, a call that faults is one of the first M calls and
\* every call after the first M returns true or false.
C18_Faults ==
    /\ \A j \in 1..NCalls :
          /\ results[j] = "fault" <=>
                (j < M \/ \E i \in 0..(M - 1) : IsNaN(OdfOfCall(j - i)))
          /\ IsNaN(OdfOfCall(j)) <=> (Overflowing(j) /\ Overflowing(j - W))
    /\ (\A k \in 1..NCalls : ~Overflowing(k)) =>
          \A j \in 1..NCalls :
              /\ results[j] = "fault" => j <= M
              /\ j > M => results[j] \in {"true", "false"}
C18_Witness ==
    /\ NCalls > M + 1
    /\ \A k \in 1..NCalls : ~Overflowing(k)
    /\ results[1] = "fault"
    /\ results[M + 1] = "true"
    /\ results[NCalls] = "false"

\* C19: no two consecutive process calls both return true: the first needs
\* the history value before its own to be greater than its own, the second
\* needs the opposite.
C19_NoConsecutiveOnsets ==
    \A j \in 1..NCalls :
        (j < NCalls /\ results[j] = "true") =>
            /\ results[j + 1] # "true"
            /\ LessF32(OdfOfCall(j), OdfOfCall(j - 1))
            /\ ~LessF32(OdfOfCall(j - 1), OdfOfCall(j))
C19_Witness ==
    /\ NCalls > M
    /\ results[NCalls - 1] = "true"
    /\ results[NCalls] = "false"
    /\ LessF32(threshold, OdfOfCall(NCalls - 1))

\* x >= 0 on f32: false of a NaN.
GeqZero(x) == ~IsNaN(x) /\ ~LessF32(x, Zero)
\* C20 as the specification has it: every history entry, the threshold and
\* highest_peak are >= 0; after a call that returned true, highest_peak is
\* at least the magnitude of the onset, which is above the threshold, and
\* so above 0.
C20_NonNegative ==
    /\ \A i \in 1..Len(history) : GeqZero(history[i])
    /\ GeqZero(threshold)
    /\ GeqZero(highest_peak)
    /\ (NCalls >= 1 /\ results[NCalls] = "true") =>
          /\ ~LessF32(highest_peak, history[2])
          /\ LessF32(threshold, history[2])
          /\ LessF32(Zero, highest_peak)
\* C20, amended: every history entry is >= 0 or NaN, and NaN only for a
\* call on which the energies of both windows overflowed; the threshold and
\* highest_peak are >= 0 and never NaN; after a call that returned true,
\* highest_peak is at least the magnitude of the onset, which is above the
\* threshold, and so above 0.
C20_NonNegativeOrNaN ==
    /\ \A i \in 1..Len(history) : IsNaN(history[i]) \/ GeqZero(history[i])
    /\ \A j \in 1..NCalls :
          IsNaN(OdfOfCall(j)) => (Overflowing(j) /\ Overflowing(j - W))
    /\ GeqZero(threshold)
    /\ GeqZero(highest_peak)
    /\ (NCalls >= 1 /\ results[NCalls] = "true") =>
          /\ ~LessF32(highest_peak, history[2])
          /\ LessF32(threshold, history[2])
          /\ LessF32(Zero, highest_peak)
C20_Witness ==
    /\ NCalls >= 1
    /\ results[NCalls] = "true"
    /\ LessF32(Zero, threshold)
    /\ LessF32(threshold, history[2])
    /\ highest_peak = history[2]
    /\ \E i \in 1..Len(history) : history[i] = Zero
====
